---- MODULE Spec2Model ----
(***************************************************************************)
(* Model of pptx/oxml/xmlchemy.py: the attribute descriptors               *)
(* (OptionalAttribute, RequiredAttribute), the child-element descriptors   *)
(* (ZeroOrOne, ZeroOrMore) and the BaseOxmlElement primitives they use.    *)
(*                                                                         *)
(* Strings (tag names, attribute names, raw attribute values) are          *)
(* sequences of one-character strings, so that qn(), str() and int() are   *)
(* computed on the characters.  Python values are records [t, i, s]:       *)
(* t is the type ("none", "int", "str", "elm"), i the integer (or element  *)
(* id), s the characters of a str.                                         *)
(***************************************************************************)
EXTENDS Integers, Sequences, FiniteSets, TLC

VARIABLES
    attrib,     \* obj.attrib: clark attribute name -> raw string value
    children,   \* the element's child elements, in document order
    successors, \* _BaseChildElement._successors of the child descriptor
    kind,       \* class of the child descriptor: "ZeroOrOne" or "ZeroOrMore"
    loose,      \* elements made by _new_x() that no parent holds yet
    nextId,     \* identity of the next element OxmlElement() makes
    inserted,   \* ids of the children attached through the descriptor
    last,       \* the last call: its operation, arguments, pre-state, outcome
    clsdict,    \* the members an element class is declared with
    cls,        \* the element class's attributes: member name -> member
    todo,       \* declared members MetaOxmlElement.__init__ has yet to visit
    runs,       \* declared name -> number of populate_class_members calls
    x, cx, flipH,   \* the connector's cxnSp.x, cxnSp.cx, cxnSp.flipH
    y, cy, flipV,   \* the connector's cxnSp.y, cxnSp.cy, cxnSp.flipV
    moved       \* the last assignment to an end point, and the state before

\* an element, its child descriptor and the last call on it
elmVars ==
    <<attrib, children, successors, kind, loose, nextId, inserted, last>>
\* an element class under instrumentation
classVars == <<clsdict, cls, todo, runs>>
\* a connector shape
cxnVars == <<x, cx, flipH, y, cy, flipV, moved>>

vars == <<elmVars, classVars, cxnVars>>

-----------------------------------------------------------------------------
(* Bounds of the model *)

\* longest child sequence an element starts with
MaxInitChildren == 2
\* number of elements OxmlElement() may make in one behaviour
MaxNew == 2
MaxMembers == 2
MaxCoord == 2

-----------------------------------------------------------------------------
(* Python values and call outcomes *)

None == [t |-> "none", i |-> 0, s |-> <<>>]
PyInt(n) == [t |-> "int", i |-> n, s |-> <<>>]
PyStr(str) == [t |-> "str", i |-> 0, s |-> str]
PyElm(e) == [t |-> "elm", i |-> e.id, s |-> e.tag]

\* a call that returned val
Return(val) == [exc |-> "none", val |-> val]
\* a call that raised exc
Raise(exc) == [exc |-> exc, val |-> None]

-----------------------------------------------------------------------------
(* Names: pptx.oxml.ns *)

\* namespace prefix -> namespace uri (abbreviated to one character)
nsmap(pfx) ==
    CASE pfx = <<"p">> -> <<"P">>
      [] pfx = <<"r">> -> <<"R">>
      [] OTHER -> <<"?">>

HasColon(name) == \E k \in 1..Len(name) : name[k] = ":"

ColonAt(name) == CHOOSE k \in 1..Len(name) :
    /\ name[k] = ":"
    /\ \A j \in 1..(k - 1) : name[j] # ":"

\* qn('p:x') = '{<uri of p>}x'
qn(tag) ==
    LET k == ColonAt(tag)
    IN  <<"{">> \o nsmap(SubSeq(tag, 1, k - 1)) \o <<"}">>
            \o SubSeq(tag, k + 1, Len(tag))

\* BaseAttribute._clark_name
clark_name(attr_name) ==
    IF HasColon(attr_name) THEN qn(attr_name) ELSE attr_name

-----------------------------------------------------------------------------
(* Simple types: BaseIntType and the test suite's ST_IntegerType *)

Digits == <<"0", "1", "2", "3", "4", "5", "6", "7", "8", "9">>

IsDigit(c) == \E d \in 1..10 : Digits[d] = c

DigitValue(c) == (CHOOSE d \in 1..10 : Digits[d] = c) - 1

RECURSIVE NatToStr(_)
NatToStr(n) ==
    IF n < 10 THEN <<Digits[n + 1]>>
    ELSE NatToStr(n \div 10) \o <<Digits[(n % 10) + 1]>>

\* str(n) of an int
IntToStr(n) == IF n < 0 THEN <<"-">> \o NatToStr(0 - n) ELSE NatToStr(n)

RECURSIVE DigitsToNat(_)
DigitsToNat(str) ==
    IF str = <<>> THEN 0
    ELSE 10 * DigitsToNat(SubSeq(str, 1, Len(str) - 1))
            + DigitValue(str[Len(str)])

AllDigits(str) == str # <<>> /\ \A k \in 1..Len(str) : IsDigit(str[k])

\* BaseIntType.convert_from_xml: int(str_value)
convert_from_xml(str) ==
    LET signed == str # <<>> /\ str[1] \in {"-", "+"}
        body == IF signed THEN Tail(str) ELSE str
    IN  IF ~AllDigits(body) THEN Raise("ValueError")
        ELSE IF signed /\ str[1] = "-"
             THEN Return(PyInt(0 - DigitsToNat(body)))
             ELSE Return(PyInt(DigitsToNat(body)))

\* BaseIntType.convert_to_xml: str(value)
convert_to_xml(value) == IntToStr(value.i)

\* BaseIntType.validate_int
validate_int(value) ==
    IF value.t # "int" THEN Raise("TypeError") ELSE Return(None)

ST_IntegerType_min == 1
ST_IntegerType_max == 42

\* ST_IntegerType.validate
validate(value) ==
    IF validate_int(value).exc # "none" THEN validate_int(value)
    ELSE IF value.i < ST_IntegerType_min \/ value.i > ST_IntegerType_max
         THEN Raise("ValueError")
         ELSE Return(None)

\* BaseSimpleType.from_xml
from_xml(str) == convert_from_xml(str)

\* BaseSimpleType.to_xml: validate, then convert
to_xml(value) ==
    IF validate(value).exc # "none" THEN validate(value)
    ELSE Return(PyStr(convert_to_xml(value)))

-----------------------------------------------------------------------------
(* lxml element attributes *)

\* obj.get(key): the raw value, or None
ElmGet(attrs, key) ==
    IF key \in DOMAIN attrs THEN PyStr(attrs[key]) ELSE None

\* obj.set(key, value)
ElmSet(attrs, key, str) ==
    [k \in DOMAIN attrs \cup {key} |-> IF k = key THEN str ELSE attrs[k]]

\* del obj.attrib[key]
ElmDel(attrs, key) == [k \in DOMAIN attrs \ {key} |-> attrs[k]]

\* an attribute call's result: the attributes afterwards, and the outcome.
\* path names the branch of the accessor that produced the outcome
AttrResult(attrs, out, path) == [attrib |-> attrs, out |-> out, path |-> path]

-----------------------------------------------------------------------------
(* OptionalAttribute *)

\* get_attr_value with "if not attr_str_value" for "is None"
OptionalAttribute_getter_falsy(attr_name, default, attrs) ==
    LET attr_str_value == ElmGet(attrs, clark_name(attr_name))
    IN  IF attr_str_value = None \/ attr_str_value.s = <<>>
        THEN AttrResult(attrs, Return(default), "default")
        ELSE AttrResult(attrs, from_xml(attr_str_value.s), "from_xml")

\* get_attr_value that falls back to the default when from_xml raises
OptionalAttribute_getter_fallback(attr_name, default, attrs) ==
    LET attr_str_value == ElmGet(attrs, clark_name(attr_name))
    IN  IF attr_str_value = None \/ from_xml(attr_str_value.s).exc # "none"
        THEN AttrResult(attrs, Return(default), "default")
        ELSE AttrResult(attrs, from_xml(attr_str_value.s), "from_xml")

\* OptionalAttribute._getter: get_attr_value(obj)
OptionalAttribute_getter(attr_name, default, attrs) ==
    LET attr_str_value == ElmGet(attrs, clark_name(attr_name))
    IN  IF attr_str_value = None
        THEN AttrResult(attrs, Return(default), "default")
        ELSE AttrResult(attrs, from_xml(attr_str_value.s), "from_xml")

\* set_attr_value without the "value is None" test
OptionalAttribute_setter_default_only(attr_name, default, attrs, value) ==
    IF value = default
    THEN IF attr_name \in DOMAIN attrs
         THEN AttrResult(ElmDel(attrs, attr_name), Return(None), "clear")
         ELSE AttrResult(attrs, Return(None), "clear")
    ELSE LET str_value == to_xml(value)
         IN  IF str_value.exc # "none"
             THEN AttrResult(attrs, str_value, "to_xml")
             ELSE AttrResult(ElmSet(attrs, clark_name(attr_name),
                                    str_value.val.s),
                             Return(None), "to_xml")

\* set_attr_value that also writes under _attr_name, as it clears
OptionalAttribute_setter_plain_key(attr_name, default, attrs, value) ==
    IF value = None \/ value = default
    THEN IF attr_name \in DOMAIN attrs
         THEN AttrResult(ElmDel(attrs, attr_name), Return(None), "clear")
         ELSE AttrResult(attrs, Return(None), "clear")
    ELSE LET str_value == to_xml(value)
         IN  IF str_value.exc # "none"
             THEN AttrResult(attrs, str_value, "to_xml")
             ELSE AttrResult(ElmSet(attrs, attr_name, str_value.val.s),
                             Return(None), "to_xml")

\* OptionalAttribute._setter: set_attr_value(obj, value).  The clear branch
\* looks the attribute up under _attr_name, the write under _clark_name.
OptionalAttribute_setter(attr_name, default, attrs, value) ==
    IF value = None \/ value = default
    THEN IF attr_name \in DOMAIN attrs
         THEN AttrResult(ElmDel(attrs, attr_name), Return(None), "clear")
         ELSE AttrResult(attrs, Return(None), "clear")
    ELSE LET str_value == to_xml(value)
         IN  IF str_value.exc # "none"
             THEN AttrResult(attrs, str_value, "to_xml")
             ELSE AttrResult(ElmSet(attrs, clark_name(attr_name),
                                    str_value.val.s),
                             Return(None), "to_xml")

-----------------------------------------------------------------------------
(* RequiredAttribute *)

\* get_attr_value that returns None for a missing attribute
RequiredAttribute_getter_lenient(attr_name, attrs) ==
    LET attr_str_value == ElmGet(attrs, clark_name(attr_name))
    IN  IF attr_str_value = None
        THEN AttrResult(attrs, Return(None), "absent")
        ELSE AttrResult(attrs, from_xml(attr_str_value.s), "from_xml")

\* RequiredAttribute._getter: get_attr_value(obj)
RequiredAttribute_getter(attr_name, attrs) ==
    LET attr_str_value == ElmGet(attrs, clark_name(attr_name))
    IN  IF attr_str_value = None
        THEN AttrResult(attrs, Raise("InvalidXmlError"), "absent")
        ELSE AttrResult(attrs, from_xml(attr_str_value.s), "from_xml")

\* set_attr_value that writes str(value) and validates afterwards
RequiredAttribute_setter_write_first(attr_name, attrs, value) ==
    LET str_value == to_xml(value)
    IN  IF str_value.exc # "none"
        THEN AttrResult(ElmSet(attrs, clark_name(attr_name),
                               IF value.t = "int" THEN convert_to_xml(value)
                               ELSE value.s),
                        str_value, "to_xml")
        ELSE AttrResult(ElmSet(attrs, clark_name(attr_name), str_value.val.s),
                        Return(None), "to_xml")

\* RequiredAttribute._setter: set_attr_value(obj, value)
RequiredAttribute_setter(attr_name, attrs, value) ==
    LET str_value == to_xml(value)
    IN  IF str_value.exc # "none"
        THEN AttrResult(attrs, str_value, "to_xml")
        ELSE AttrResult(ElmSet(attrs, clark_name(attr_name), str_value.val.s),
                        Return(None), "to_xml")

-----------------------------------------------------------------------------
(* The element under test and the calls made on it *)

optAttr == <<"o", "p", "t", "A", "t", "t", "r">>
reqAttr == <<"r", "e", "q", "A", "t", "t", "r">>
r_id == <<"r", ":", "i", "d">>

\* attribute names the optional / required descriptors are declared with
OptionalAttrNames == {optAttr, r_id}
RequiredAttrNames == {reqAttr}
\* defaults an OptionalAttribute is declared with
Defaults == {None, PyInt(24)}

\* raw attribute values a parsed document may hold
RawStrings == {<<"5">>, <<"x">>, <<>>}

\* values a caller assigns
AssignedValues ==
    {None, PyInt(0 - 4), PyInt(24), PyInt(42), PyStr(<<"2">>)}

AttrKeys == {clark_name(n) : n \in OptionalAttrNames \cup RequiredAttrNames}

\* every attribute mapping a parsed element may carry
Attribs ==
    UNION {[keys -> RawStrings] : keys \in SUBSET AttrKeys}

NoElm == [tag |-> <<>>, id |-> 0, attrib |-> [k \in {} |-> <<>>]]

NoCall ==
    [op |-> "none", name |-> <<>>, default |-> None, value |-> None,
     elm |-> NoElm, attrib |-> [k \in {} |-> <<>>], children |-> <<>>,
     out |-> Return(None), path |-> "", lst |-> <<>>, attrs |-> <<>>]

\* the record of an attribute call made in the current state
AttrCall(op, attr_name, default, value, res) ==
    [op |-> op, name |-> attr_name, default |-> default, value |-> value,
     elm |-> NoElm, attrib |-> attrib, children |-> children,
     out |-> res.out, path |-> res.path, lst |-> <<>>, attrs |-> <<>>]

\* value = obj.optAttr
GetOptional(attr_name, default) ==
    LET res == OptionalAttribute_getter(attr_name, default, attrib)
    IN  /\ attrib' = res.attrib
        /\ last' = AttrCall("get_optional", attr_name, default, None, res)
        /\ UNCHANGED <<classVars, cxnVars, children, successors, kind, loose, nextId, inserted>>

\* obj.optAttr = value
SetOptional(attr_name, default, value) ==
    LET res == OptionalAttribute_setter(attr_name, default, attrib, value)
    IN  /\ attrib' = res.attrib
        /\ last' = AttrCall("set_optional", attr_name, default, value, res)
        /\ UNCHANGED <<classVars, cxnVars, children, successors, kind, loose, nextId, inserted>>

\* value = obj.reqAttr
GetRequired(attr_name) ==
    LET res == RequiredAttribute_getter(attr_name, attrib)
    IN  /\ attrib' = res.attrib
        /\ last' = AttrCall("get_required", attr_name, None, None, res)
        /\ UNCHANGED <<classVars, cxnVars, children, successors, kind, loose, nextId, inserted>>

\* obj.reqAttr = value
SetRequired(attr_name, value) ==
    LET res == RequiredAttribute_setter(attr_name, attrib, value)
    IN  /\ attrib' = res.attrib
        /\ last' = AttrCall("set_required", attr_name, None, value, res)
        /\ UNCHANGED <<classVars, cxnVars, children, successors, kind, loose, nextId, inserted>>

-----------------------------------------------------------------------------
(* BaseOxmlElement: the child primitives *)

\* position of the first child with the clark name tag, 0 when there is none
FindIndex(kids, tag) ==
    IF \E k \in 1..Len(kids) : kids[k].tag = tag
    THEN CHOOSE k \in 1..Len(kids) :
            /\ kids[k].tag = tag
            /\ \A j \in 1..(k - 1) : kids[j].tag # tag
    ELSE 0

\* BaseOxmlElement.first_child_found_in: the position of the child it
\* returns, 0 for None.  The loop runs over tagnames, in the order given.
RECURSIVE first_child_found_in(_, _)
first_child_found_in(kids, tagnames) ==
    IF tagnames = <<>> THEN 0
    ELSE LET child == FindIndex(kids, qn(Head(tagnames)))
         IN  IF child # 0 THEN child
             ELSE first_child_found_in(kids, Tail(tagnames))

\* kids with elm put at position k (1..Len(kids) + 1)
InsertAt(kids, elm, k) ==
    SubSeq(kids, 1, k - 1) \o <<elm>> \o SubSeq(kids, k, Len(kids))

\* BaseOxmlElement.insert_element_before: successor.addprevious(elm), or
\* self.append(elm); returns elm
insert_element_before(kids, elm, tagnames) ==
    LET successor == first_child_found_in(kids, tagnames)
    IN  [children |-> IF successor # 0 THEN InsertAt(kids, elm, successor)
                      ELSE Append(kids, elm),
         out |-> Return(PyElm(elm))]

-----------------------------------------------------------------------------
(* _BaseChildElement: the methods a child descriptor generates *)

\* the descriptor's _nsptagname
nsptagname == <<"p", ":", "x">>

\* populate_class_members: the members a descriptor of class k adds to the
\* element class, for the property name x
Installed(k) ==
    IF k = "ZeroOrMore"
    THEN {"x_lst", "_new_x", "_insert_x", "_add_x"}
    ELSE {"x", "_new_x", "_insert_x", "_add_x", "get_or_add_x", "_remove_x"}

\* _BaseChildElement._creator: new_child_element(obj) = OxmlElement(tag)
new_child_element(id) ==
    [tag |-> qn(nsptagname), id |-> id, attrib |-> [k \in {} |-> <<>>]]

\* _BaseChildElement._add_inserter: _insert_child(obj, child).  The body
\* has no return statement: the call evaluates to None.
insert_child(kids, child, succs) ==
    [children |-> insert_element_before(kids, child, succs).children,
     out |-> Return(None)]

\* for key, value in attrs.items(): setattr(child, key, value).  attrs is
\* the sequence of (key, value) pairs in the order items() yields them; the
\* child class declares each key as a RequiredAttribute of ST_IntegerType.
\* The loop ends at the first assignment that raises.
RECURSIVE SetAttrs(_, _)
SetAttrs(child, attrs) ==
    IF attrs = <<>> THEN [elm |-> child, out |-> Return(None)]
    ELSE LET res == RequiredAttribute_setter(attrs[1][1], child.attrib,
                                             attrs[1][2])
             assigned == [child EXCEPT !.attrib = res.attrib]
         IN  IF res.out.exc # "none" THEN [elm |-> assigned, out |-> res.out]
             ELSE SetAttrs(assigned, Tail(attrs))

\* _add_child that inserts the new child before it assigns the keywords
add_child_insert_first(kids, id, attrs, succs) ==
    LET configured == SetAttrs(new_child_element(id), attrs)
    IN  [children |-> insert_child(kids, configured.elm, succs).children,
         elm |-> configured.elm,
         out |-> IF configured.out.exc # "none" THEN configured.out
                 ELSE Return(PyElm(configured.elm))]

\* _BaseChildElement._add_adder: _add_child(obj, **attrs)
add_child(kids, id, attrs, succs) ==
    LET configured == SetAttrs(new_child_element(id), attrs)
    IN  IF configured.out.exc # "none"
        THEN [children |-> kids, elm |-> configured.elm,
              out |-> configured.out]
        ELSE [children |-> insert_child(kids, configured.elm, succs).children,
              elm |-> configured.elm,
              out |-> Return(PyElm(configured.elm))]

\* _BaseChildElement._getter: get_child_element(obj) = obj.find(qn(tag)),
\* as the position of the child, 0 for None
get_child_element(kids) == FindIndex(kids, qn(nsptagname))

\* obj.findall(qn(tagname)): the children with that tag, in document order
FindAll(kids, tag) ==
    LET Matches(e) == e.tag = tag
    IN  SelectSeq(kids, Matches)

\* _BaseChildElement._list_getter: get_child_element_list(obj)
get_child_element_list(kids) == FindAll(kids, qn(nsptagname))

\* get_or_add_child without the "if child is None" test
get_or_add_child_always(kids, id, succs) ==
    LET added == add_child(kids, id, <<>>, succs)
    IN  [children |-> added.children, elm |-> added.elm,
         out |-> added.out, made |-> TRUE]

\* ZeroOrOne._add_get_or_adder: get_or_add_child(obj)
get_or_add_child(kids, id, succs) ==
    LET child == get_child_element(kids)
        added == add_child(kids, id, <<>>, succs)
    IN  IF child = 0
        THEN [children |-> added.children, elm |-> added.elm,
              out |-> added.out, made |-> TRUE]
        ELSE [children |-> kids, elm |-> kids[child],
              out |-> Return(PyElm(kids[child])), made |-> FALSE]

\* self.remove(child): the children without the element child
RemoveElm(kids, child) ==
    LET Others(e) == e.id # child.id
    IN  SelectSeq(kids, Others)

\* for child in matching: self.remove(child)
RECURSIVE RemoveEach(_, _)
RemoveEach(kids, matching) ==
    IF matching = <<>> THEN kids
    ELSE RemoveEach(RemoveElm(kids, Head(matching)), Tail(matching))

\* remove_all that removes the first matching child only
remove_all_first_only(kids, tagname) ==
    IF FindIndex(kids, qn(tagname)) = 0 THEN kids
    ELSE RemoveElm(kids, kids[FindIndex(kids, qn(tagname))])

\* BaseOxmlElement.remove_all
remove_all(kids, tagname) == RemoveEach(kids, FindAll(kids, qn(tagname)))

\* ZeroOrOne._add_remover: _remove_child(obj)
remove_child(kids) ==
    [children |-> remove_all(kids, nsptagname), out |-> Return(None)]

\* remove_if_present as its docstring has it: every child with a listed tag
RECURSIVE remove_if_present_every(_, _)
remove_if_present_every(kids, tagnames) ==
    IF tagnames = <<>> THEN kids
    ELSE remove_if_present_every(remove_all(kids, Head(tagnames)),
                                 Tail(tagnames))

\* BaseOxmlElement.remove_if_present
RECURSIVE remove_if_present(_, _)
remove_if_present(kids, tagnames) ==
    IF tagnames = <<>> THEN kids
    ELSE LET element == FindIndex(kids, qn(Head(tagnames)))
         IN  remove_if_present(IF element # 0
                               THEN RemoveElm(kids, kids[element])
                               ELSE kids,
                               Tail(tagnames))

-----------------------------------------------------------------------------
(* Calls on the children of the element *)

tag_b == <<"p", ":", "b">>
tag_c == <<"p", ":", "c">>

\* successors tuples a descriptor is declared with
SuccessorTuples ==
    {<<>>, <<tag_b>>, <<tag_c>>, <<tag_b, tag_c>>, <<tag_c, tag_b>>}

\* tag names handed to first_child_found_in
TagTuples == SuccessorTuples \cup {<<nsptagname>>, <<tag_c, nsptagname>>}

\* tags of the children a parsed parent may hold
InitTags == {qn(tag_b), qn(tag_c), qn(nsptagname)}

\* child sequences of a parsed parent: the k-th child has identity k
InitChildren ==
    UNION {
        {[k \in 1..n |-> [tag |-> tags[k], id |-> k,
                          attrib |-> [a \in {} |-> <<>>]]] :
            tags \in [1..n -> InitTags]} :
        n \in 0..MaxInitChildren}

\* keyword arguments of _add_x(): at most one, reqAttr=value
AddAttrs == {<<>>, <<<<reqAttr, PyInt(5)>>>>, <<<<reqAttr, PyInt(50)>>>>}

ChildCall(op, elm, value, out) ==
    [op |-> op, name |-> nsptagname, default |-> None, value |-> value,
     elm |-> elm, attrib |-> attrib, children |-> children,
     out |-> out, path |-> "", lst |-> <<>>, attrs |-> <<>>]

\* the identity of the first element OxmlElement() makes
FirstNewId == MaxInitChildren + 1

\* elements made so far by OxmlElement()
Made == nextId - FirstNewId

\* child = parent._new_x()
New ==
    /\ "_new_x" \in Installed(kind)
    /\ Made < MaxNew
    /\ loose' = loose \cup {new_child_element(nextId)}
    /\ nextId' = nextId + 1
    /\ last' = ChildCall("new", new_child_element(nextId), None,
                         Return(PyElm(new_child_element(nextId))))
    /\ UNCHANGED <<classVars, cxnVars, attrib, children, successors, kind, inserted>>

\* parent._insert_x(child), child a loose element made by _new_x()
Insert(child) ==
    LET res == insert_child(children, child, successors)
    IN  /\ "_insert_x" \in Installed(kind)
        /\ children' = res.children
        /\ loose' = loose \ {child}
        /\ inserted' = inserted \cup {child.id}
        /\ last' = ChildCall("insert", child, None, res.out)
        /\ UNCHANGED <<classVars, cxnVars, attrib, successors, kind, nextId>>

\* child = parent._add_x(**attrs)
Add(attrs) ==
    LET res == add_child(children, nextId, attrs, successors)
    IN  /\ "_add_x" \in Installed(kind)
        /\ Made < MaxNew
        /\ children' = res.children
        /\ nextId' = nextId + 1
        /\ inserted' = IF res.out.exc = "none"
                         THEN inserted \cup {res.elm.id} ELSE inserted
        /\ last' = [ChildCall("add", res.elm,
                              IF attrs = <<>> THEN None ELSE attrs[1][2],
                              res.out)
                        EXCEPT !.attrs = attrs]
        /\ UNCHANGED <<classVars, cxnVars, attrib, successors, kind, loose>>

\* parent.first_child_found_in(*tagnames)
FirstChildFoundIn(tagnames) ==
    LET child == first_child_found_in(children, tagnames)
    IN  /\ last' = [ChildCall("first_child_found_in", NoElm, None,
                              IF child = 0 THEN Return(None)
                              ELSE Return(PyElm(children[child])))
                        EXCEPT !.name = tagnames]
        /\ UNCHANGED <<classVars, cxnVars, attrib, children, successors, kind, loose, nextId,
                       inserted>>

\* child = parent.x
Get ==
    LET child == get_child_element(children)
    IN  /\ "x" \in Installed(kind)
        /\ last' = ChildCall("get", NoElm, None,
                             IF child = 0 THEN Return(None)
                             ELSE Return(PyElm(children[child])))
        /\ UNCHANGED <<classVars, cxnVars, attrib, children, successors,
                       kind, loose, nextId, inserted>>

\* lst = parent.x_lst
ListGet ==
    /\ "x_lst" \in Installed(kind)
    /\ last' = [ChildCall("x_lst", NoElm, None, Return(None))
                    EXCEPT !.lst = get_child_element_list(children)]
    /\ UNCHANGED <<classVars, cxnVars, attrib, children, successors, kind,
                   loose, nextId, inserted>>

\* child = parent.get_or_add_x()
GetOrAdd ==
    LET res == get_or_add_child(children, nextId, successors)
    IN  /\ "get_or_add_x" \in Installed(kind)
        /\ res.made => Made < MaxNew
        /\ children' = res.children
        /\ nextId' = IF res.made THEN nextId + 1 ELSE nextId
        /\ inserted' = IF res.made THEN inserted \cup {res.elm.id}
                         ELSE inserted
        /\ last' = ChildCall("get_or_add", res.elm, None, res.out)
        /\ UNCHANGED <<classVars, cxnVars, attrib, successors, kind, loose>>

\* parent._remove_x()
Remove ==
    LET res == remove_child(children)
    IN  /\ "_remove_x" \in Installed(kind)
        /\ children' = res.children
        /\ last' = ChildCall("remove", NoElm, None, res.out)
        /\ UNCHANGED <<classVars, cxnVars, attrib, successors, kind, loose,
                       nextId, inserted>>

\* parent.remove_if_present(*tagnames)
RemoveIfPresent(tagnames) ==
    /\ children' = remove_if_present(children, tagnames)
    /\ last' = [ChildCall("remove_if_present", NoElm, None, Return(None))
                    EXCEPT !.name = tagnames]
    /\ UNCHANGED <<classVars, cxnVars, attrib, successors, kind, loose,
                   nextId, inserted>>

\* keyword arguments of _add_x(): up to two, in the order items() yields
EditAttrs ==
    {<<>>,
     <<<<reqAttr, PyInt(50)>>>>,
     <<<<reqAttr, PyInt(5)>>, <<r_id, PyInt(42)>>>>,
     <<<<reqAttr, PyInt(5)>>, <<r_id, PyInt(50)>>>>}

\* tag names handed to remove_if_present
RemoveTuples ==
    {<<tag_b>>, <<tag_b, tag_c>>, <<tag_c, tag_b>>, <<nsptagname, tag_b>>,
     <<tag_b, tag_b>>}

-----------------------------------------------------------------------------
(* MetaOxmlElement: instrumentation of an element class *)

\* member names, as written in the class body
name_x == <<"x">>
name_y == <<"y">>
name_x_lst == <<"x", "_", "l", "s", "t">>
name_add_x == <<"_", "a", "d", "d", "_", "x">>

\* the names a class body may declare
DeclaredNames == {name_x, name_y, name_x_lst, name_add_x}

\* dispatchable = (OptionalAttribute, RequiredAttribute, ZeroOrMore,
\* ZeroOrOne)
dispatchable ==
    {"OptionalAttribute", "RequiredAttribute", "ZeroOrMore", "ZeroOrOne"}

\* what a class body may bind a name to: a descriptor of one of the four
\* classes, or a method the class defines itself ("def")
DeclaredValues == dispatchable \cup {"def"}

\* the names derived from a descriptor's _prop_name
list_getter_name(prop_name) == prop_name \o <<"_", "l", "s", "t">>
add_method_name(prop_name) == <<"_", "a", "d", "d", "_">> \o prop_name
insert_method_name(prop_name) ==
    <<"_", "i", "n", "s", "e", "r", "t", "_">> \o prop_name
new_method_name(prop_name) == <<"_", "n", "e", "w", "_">> \o prop_name
remove_method_name(prop_name) ==
    <<"_", "r", "e", "m", "o", "v", "e", "_">> \o prop_name
get_or_add_method_name(prop_name) ==
    <<"g", "e", "t", "_", "o", "r", "_", "a", "d", "d", "_">> \o prop_name

\* a member of the class: what it is, and the declared name it comes from
Member(what, by) == [what |-> what, by |-> by]

\* the class namespace type.__new__ builds from clsdict
ClassOf(dict) == [n \in DOMAIN dict |-> Member(dict[n], n)]

\* setattr(element_cls, name, member)
SetAttr(c, name, member) ==
    [n \in DOMAIN c \cup {name} |-> IF n = name THEN member ELSE c[n]]

\* delattr(element_cls, name)
DelAttr(c, name) == [n \in DOMAIN c \ {name} |-> c[n]]

\* _BaseChildElement._add_to_class: hasattr(element_cls, name) is true of
\* every name in the class namespace
add_to_class(c, name, member) ==
    IF name \in DOMAIN c THEN c ELSE SetAttr(c, name, member)

\* BaseAttribute.populate_class_members: _add_attr_property
Attribute_populate_class_members(c, prop_name) ==
    SetAttr(c, prop_name, Member("attr_property", prop_name))

\* _BaseChildElement._add_getter
add_getter(c, prop_name) ==
    SetAttr(c, prop_name, Member("get_child_element", prop_name))

\* _BaseChildElement._add_list_getter
add_list_getter(c, prop_name) ==
    SetAttr(c, list_getter_name(prop_name),
            Member("get_child_element_list", prop_name))

\* _BaseChildElement._add_creator
add_creator(c, prop_name) ==
    add_to_class(c, new_method_name(prop_name),
                 Member("new_child_element", prop_name))

\* _BaseChildElement._add_inserter
add_inserter(c, prop_name) ==
    add_to_class(c, insert_method_name(prop_name),
                 Member("_insert_child", prop_name))

\* _BaseChildElement._add_adder
add_adder(c, prop_name) ==
    add_to_class(c, add_method_name(prop_name),
                 Member("_add_child", prop_name))

\* ZeroOrOne._add_get_or_adder
add_get_or_adder(c, prop_name) ==
    add_to_class(c, get_or_add_method_name(prop_name),
                 Member("get_or_add_child", prop_name))

\* ZeroOrOne._add_remover
add_remover(c, prop_name) ==
    add_to_class(c, remove_method_name(prop_name),
                 Member("_remove_child", prop_name))

\* ZeroOrMore.populate_class_members
ZeroOrMore_populate_class_members(c, prop_name) ==
    DelAttr(add_adder(add_inserter(add_creator(
                add_list_getter(c, prop_name),
                prop_name), prop_name), prop_name),
            prop_name)

\* ZeroOrOne.populate_class_members
ZeroOrOne_populate_class_members(c, prop_name) ==
    add_remover(add_get_or_adder(add_adder(add_inserter(add_creator(
        add_getter(c, prop_name),
        prop_name), prop_name), prop_name), prop_name), prop_name)

\* value.populate_class_members(cls, key), by the class of value
populate_class_members(value, c, key) ==
    CASE value = "ZeroOrMore" -> ZeroOrMore_populate_class_members(c, key)
      [] value = "ZeroOrOne" -> ZeroOrOne_populate_class_members(c, key)
      [] OTHER -> Attribute_populate_class_members(c, key)

\* one turn of "for key, value in clsdict.items()" with a dispatchable
\* value; items() yields the keys in an order the class body does not fix
Populate(key) ==
    /\ key \in todo
    /\ clsdict[key] \in dispatchable
    /\ cls' = populate_class_members(clsdict[key], cls, key)
    /\ runs' = [runs EXCEPT ![key] = @ + 1]
    /\ todo' = todo \ {key}
    /\ UNCHANGED <<elmVars, cxnVars, clsdict>>

\* one turn of the loop with a value that is no descriptor
Skip(key) ==
    /\ key \in todo
    /\ clsdict[key] \notin dispatchable
    /\ todo' = todo \ {key}
    /\ UNCHANGED <<elmVars, cxnVars, clsdict, cls, runs>>

-----------------------------------------------------------------------------
(* Connector: the end points of a connector shape *)

\* the connector's element: cxnSp.x, cx, flipH, y, cy, flipV
CxnSp ==
    [x |-> x, cx |-> cx, flipH |-> flipH, y |-> y, cy |-> cy, flipV |-> flipV]

\* abs()
Abs(n) == IF n < 0 THEN 0 - n ELSE n

\* Connector.begin_x getter
begin_x(cxnSp) == IF cxnSp.flipH THEN cxnSp.x + cxnSp.cx ELSE cxnSp.x

\* Connector.begin_y getter
begin_y(cxnSp) == IF cxnSp.flipV THEN cxnSp.y + cxnSp.cy ELSE cxnSp.y

\* Connector.end_x getter
end_x(cxnSp) == IF cxnSp.flipH THEN cxnSp.x ELSE cxnSp.x + cxnSp.cx

\* Connector.end_y getter
end_y(cxnSp) == IF cxnSp.flipV THEN cxnSp.y ELSE cxnSp.y + cxnSp.cy

\* begin_x setter that shrinks where it has to flip
begin_x_setter_no_flip(cxnSp, value) ==
    LET new_x == value
    IN  IF cxnSp.flipH
        THEN [cxnSp EXCEPT !.cx = new_x - cxnSp.x]
        ELSE [cxnSp EXCEPT !.x = new_x,
                           !.cx = cxnSp.x + cxnSp.cx - new_x]

\* Connector.begin_x setter
begin_x_setter(cxnSp, value) ==
    LET new_x == value
    IN  IF cxnSp.flipH
        THEN LET old_x == cxnSp.x + cxnSp.cx
                 dx == Abs(new_x - old_x)
             IN  IF new_x >= old_x
                 THEN [cxnSp EXCEPT !.cx = cxnSp.cx + dx]
                 ELSE IF dx <= cxnSp.cx
                 THEN [cxnSp EXCEPT !.cx = cxnSp.cx - dx]
                 ELSE [cxnSp EXCEPT !.flipH = FALSE, !.x = new_x,
                                    !.cx = dx - cxnSp.cx]
        ELSE LET dx == Abs(new_x - cxnSp.x)
             IN  IF new_x <= cxnSp.x
                 THEN [cxnSp EXCEPT !.x = new_x, !.cx = cxnSp.cx + dx]
                 ELSE IF dx <= cxnSp.cx
                 THEN [cxnSp EXCEPT !.x = new_x, !.cx = cxnSp.cx - dx]
                 ELSE [cxnSp EXCEPT !.flipH = TRUE,
                                    !.x = cxnSp.x + cxnSp.cx,
                                    !.cx = dx - cxnSp.cx]

\* Connector.begin_y setter
begin_y_setter(cxnSp, value) ==
    LET new_y == value
    IN  IF cxnSp.flipV
        THEN LET old_y == cxnSp.y + cxnSp.cy
                 dy == Abs(new_y - old_y)
             IN  IF new_y >= old_y
                 THEN [cxnSp EXCEPT !.cy = cxnSp.cy + dy]
                 ELSE IF dy <= cxnSp.cy
                 THEN [cxnSp EXCEPT !.cy = cxnSp.cy - dy]
                 ELSE [cxnSp EXCEPT !.flipV = FALSE, !.y = new_y,
                                    !.cy = dy - cxnSp.cy]
        ELSE LET dy == Abs(new_y - cxnSp.y)
             IN  IF new_y <= cxnSp.y
                 THEN [cxnSp EXCEPT !.y = new_y, !.cy = cxnSp.cy + dy]
                 ELSE IF dy <= cxnSp.cy
                 THEN [cxnSp EXCEPT !.y = new_y, !.cy = cxnSp.cy - dy]
                 ELSE [cxnSp EXCEPT !.flipV = TRUE,
                                    !.y = cxnSp.y + cxnSp.cy,
                                    !.cy = dy - cxnSp.cy]

\* Connector.end_x setter
end_x_setter(cxnSp, value) ==
    LET new_x == value
    IN  IF cxnSp.flipH
        THEN LET dx == Abs(new_x - cxnSp.x)
             IN  IF new_x <= cxnSp.x
                 THEN [cxnSp EXCEPT !.x = new_x, !.cx = cxnSp.cx + dx]
                 ELSE IF dx <= cxnSp.cx
                 THEN [cxnSp EXCEPT !.x = new_x, !.cx = cxnSp.cx - dx]
                 ELSE [cxnSp EXCEPT !.flipH = FALSE,
                                    !.x = cxnSp.x + cxnSp.cx,
                                    !.cx = dx - cxnSp.cx]
        ELSE LET old_x == cxnSp.x + cxnSp.cx
                 dx == Abs(new_x - old_x)
             IN  IF new_x >= old_x
                 THEN [cxnSp EXCEPT !.cx = cxnSp.cx + dx]
                 ELSE IF dx <= cxnSp.cx
                 THEN [cxnSp EXCEPT !.cx = cxnSp.cx - dx]
                 ELSE [cxnSp EXCEPT !.flipH = TRUE, !.x = new_x,
                                    !.cx = dx - cxnSp.cx]

\* Connector.end_y setter
end_y_setter(cxnSp, value) ==
    LET new_y == value
    IN  IF cxnSp.flipV
        THEN LET dy == Abs(new_y - cxnSp.y)
             IN  IF new_y <= cxnSp.y
                 THEN [cxnSp EXCEPT !.y = new_y, !.cy = cxnSp.cy + dy]
                 ELSE IF dy <= cxnSp.cy
                 THEN [cxnSp EXCEPT !.y = new_y, !.cy = cxnSp.cy - dy]
                 ELSE [cxnSp EXCEPT !.flipV = FALSE,
                                    !.y = cxnSp.y + cxnSp.cy,
                                    !.cy = dy - cxnSp.cy]
        ELSE LET old_y == cxnSp.y + cxnSp.cy
                 dy == Abs(new_y - old_y)
             IN  IF new_y >= old_y
                 THEN [cxnSp EXCEPT !.cy = cxnSp.cy + dy]
                 ELSE IF dy <= cxnSp.cy
                 THEN [cxnSp EXCEPT !.cy = cxnSp.cy - dy]
                 ELSE [cxnSp EXCEPT !.flipV = TRUE, !.y = new_y,
                                    !.cy = dy - cxnSp.cy]

\* positions and extents of the element a connector starts with
Coords == 0..MaxCoord

\* the values assigned to an end point
Values == (0 - 1)..MaxCoord

\* the call connector.<prop> = value, with the element as it was before
Moved(prop, value) ==
    [prop |-> prop, value |-> value, x |-> x, cx |-> cx, flipH |-> flipH,
     y |-> y, cy |-> cy, flipV |-> flipV]

\* cxnSp.x, cx, flipH, y, cy, flipV become those of the record after
Store(after) ==
    /\ x' = after.x
    /\ cx' = after.cx
    /\ flipH' = after.flipH
    /\ y' = after.y
    /\ cy' = after.cy
    /\ flipV' = after.flipV

\* connector.begin_x = value
SetBeginX(value) ==
    /\ Store(begin_x_setter(CxnSp, value))
    /\ moved' = Moved("begin_x", value)
    /\ UNCHANGED <<elmVars, classVars>>

\* connector.begin_y = value
SetBeginY(value) ==
    /\ Store(begin_y_setter(CxnSp, value))
    /\ moved' = Moved("begin_y", value)
    /\ UNCHANGED <<elmVars, classVars>>

\* connector.end_x = value
SetEndX(value) ==
    /\ Store(end_x_setter(CxnSp, value))
    /\ moved' = Moved("end_x", value)
    /\ UNCHANGED <<elmVars, classVars>>

\* connector.end_y = value
SetEndY(value) ==
    /\ Store(end_y_setter(CxnSp, value))
    /\ moved' = Moved("end_y", value)
    /\ UNCHANGED <<elmVars, classVars>>

-----------------------------------------------------------------------------
(* Specifications *)

\* no element in use
NoElement ==
    /\ attrib = [k \in {} |-> <<>>]
    /\ children = <<>>
    /\ successors = <<>>
    /\ kind = "ZeroOrOne"
    /\ loose = {}
    /\ nextId = FirstNewId
    /\ inserted = {}
    /\ last = NoCall

\* no element class is under instrumentation
NoClass ==
    /\ clsdict = [n \in {} |-> ""]
    /\ cls = [n \in {} |-> ""]
    /\ todo = {}
    /\ runs = [n \in {} |-> 0]

\* no connector is in use
NoConnector ==
    /\ x = 0 /\ cx = 0 /\ flipH = FALSE
    /\ y = 0 /\ cy = 0 /\ flipV = FALSE
    /\ moved = [prop |-> "none", value |-> 0, x |-> 0, cx |-> 0,
                flipH |-> FALSE, y |-> 0, cy |-> 0, flipV |-> FALSE]

\* an element with any attributes, read and written through its attribute
\* descriptors
InitAttr ==
    /\ attrib \in Attribs
    /\ children \in {c \in InitChildren : Len(c) <= 1 /\
                        \A k \in 1..Len(c) : c[k].tag = qn(nsptagname)}
    /\ successors = <<>>
    /\ kind = "ZeroOrMore"
    /\ loose = {}
    /\ nextId = FirstNewId
    /\ inserted = {}
    /\ last = NoCall
    /\ NoClass
    /\ NoConnector

NextAttr ==
    \/ \E n \in OptionalAttrNames, d \in Defaults : GetOptional(n, d)
    \/ \E n \in OptionalAttrNames, d \in Defaults, v \in AssignedValues :
            SetOptional(n, d, v)
    \/ \E n \in RequiredAttrNames : GetRequired(n)
    \/ \E n \in RequiredAttrNames, v \in AssignedValues : SetRequired(n, v)

SpecAttr == InitAttr /\ [][NextAttr]_vars

\* <p:parent reqAttr="5"> with any children, changed through one child
\* descriptor for p:x
InitChild ==
    /\ attrib = [k \in {reqAttr} |-> <<"5">>]
    /\ children \in InitChildren
    /\ successors \in SuccessorTuples
    /\ kind \in {"ZeroOrOne", "ZeroOrMore"}
    /\ loose = {}
    /\ nextId = FirstNewId
    /\ inserted = {}
    /\ last = NoCall
    /\ NoClass
    /\ NoConnector

NextChild ==
    \/ New
    \/ \E child \in loose : Insert(child)
    \/ \E attrs \in AddAttrs : Add(attrs)
    \/ \E tagnames \in TagTuples : FirstChildFoundIn(tagnames)

SpecChild == InitChild /\ [][NextChild]_vars

\* number of children with the descriptor's tag
CountX(kids) == Len(get_child_element_list(kids))

\* <p:parent reqAttr="5"> with at most one p:x child, used through the
\* getter, get_or_add_x() and _remove_x() of a ZeroOrOne descriptor
InitZeroOrOne ==
    /\ attrib = [k \in {reqAttr} |-> <<"5">>]
    /\ children \in {c \in InitChildren : CountX(c) <= 1}
    /\ successors \in SuccessorTuples
    /\ kind = "ZeroOrOne"
    /\ loose = {}
    /\ nextId = FirstNewId
    /\ inserted = {}
    /\ last = NoCall
    /\ NoClass
    /\ NoConnector

NextZeroOrOne ==
    \/ Get
    \/ GetOrAdd
    \/ Remove

SpecZeroOrOne == InitZeroOrOne /\ [][NextZeroOrOne]_vars

\* <p:parent reqAttr="5"> with any children, edited through _add_x(),
\* _remove_x() and remove_if_present() and read through x and x_lst
NextEdit ==
    \/ \E attrs \in EditAttrs : Add(attrs)
    \/ Get
    \/ ListGet
    \/ Remove
    \/ \E tagnames \in RemoveTuples : RemoveIfPresent(tagnames)

SpecEdit == InitChild /\ [][NextEdit]_vars

\* class bodies that bind up to MaxMembers names
ClassDicts ==
    UNION {[names -> DeclaredValues] :
             names \in {ns \in SUBSET DeclaredNames :
                           Cardinality(ns) <= MaxMembers}}

\* MetaOxmlElement.__init__ called with the class type.__new__ made of
\* clsdict, before its loop starts
InitClass ==
    /\ clsdict \in ClassDicts
    /\ cls = ClassOf(clsdict)
    /\ todo = DOMAIN clsdict
    /\ runs = [n \in DOMAIN clsdict |-> 0]
    /\ NoElement
    /\ NoConnector

NextClass ==
    \/ \E key \in DeclaredNames : Populate(key)
    \/ \E key \in DeclaredNames : Skip(key)

SpecClass == InitClass /\ [][NextClass]_vars

\* a connector whose element has a non-negative extent on both axes
InitConnector ==
    /\ x \in Coords /\ cx \in Coords /\ flipH \in BOOLEAN
    /\ y \in Coords /\ cy \in Coords /\ flipV \in BOOLEAN
    /\ moved = [prop |-> "none", value |-> 0, x |-> 0, cx |-> 0,
                flipH |-> FALSE, y |-> 0, cy |-> 0, flipV |-> FALSE]
    /\ NoElement
    /\ NoClass

NextConnector ==
    \/ \E value \in Values : SetBeginX(value)
    \/ \E value \in Values : SetBeginY(value)
    \/ \E value \in Values : SetEndX(value)
    \/ \E value \in Values : SetEndY(value)

SpecConnector == InitConnector /\ [][NextConnector]_vars

-----------------------------------------------------------------------------
(* Attribute descriptors: properties *)

\* the value is not one the simple type ST_IntegerType accepts: not an int,
\* or outside 1..42
InvalidValue(v) ==
    v.t # "int" \/ v.i < ST_IntegerType_min \/ v.i > ST_IntegerType_max

\* the attributes and children are those the last call found
ElementUnchanged == attrib = last.attrib /\ children = last.children

\* the key the last call's descriptor reads and writes
LastKey == clark_name(last.name)

\* C3: assigning an invalid value (not an int, or an int outside the
\* simple type's range) to a required attribute raises TypeError or
\* ValueError, and the element's attributes and children are what they were
\* before the assignment, so the previous value is still read back.
C3_InvalidRequiredAssignFails ==
    (last.op = "set_required" /\ InvalidValue(last.value)) =>
        /\ last.out.exc = (IF last.value.t # "int" THEN "TypeError"
                            ELSE "ValueError")
        /\ ElementUnchanged
        /\ RequiredAttribute_getter(last.name, attrib).out
              = RequiredAttribute_getter(last.name, last.attrib).out

\* an out-of-range int was assigned over a value that was present
C3_Witness ==
    /\ last.op = "set_required"
    /\ last.value = PyInt(0 - 4)
    /\ LastKey \in DOMAIN last.attrib
    /\ last.out.exc = "ValueError"

\* C5: assigning the default D of an optional attribute leaves the
\* attribute absent, whatever the attribute's name, so that a following get
\* returns D through the absent branch; and it changes nothing when the
\* attribute was absent already.
C5_AssignDefaultClears ==
    (last.op = "set_optional" /\ last.value = last.default) =>
        /\ LastKey \notin DOMAIN attrib
        /\ OptionalAttribute_getter(last.name, last.default, attrib).path
              = "default"
        /\ LastKey \notin DOMAIN last.attrib => ElementUnchanged

\* the outcome of converting the assigned value and writing the string
ConvertedAndWritten ==
    LET str_value == to_xml(last.value)
    IN  IF str_value.exc # "none"
        THEN last.out = str_value /\ attrib = last.attrib
        ELSE /\ last.out = Return(None)
             /\ attrib = ElmSet(last.attrib, LastKey, str_value.val.s)

\* C6 as stated: every assigned value that is not the default D, None
\* included, is passed to to_xml, and the outcome is the converted string
\* written to the attribute or the converter's error.
C6_OnlyDefaultClears ==
    (last.op = "set_optional" /\ last.value # last.default) =>
        ConvertedAndWritten

\* C6: assigning None, or a value equal to the default D, is the request to
\* clear: it is not passed to to_xml, raises nothing and writes nothing.
\* Every other assigned value is passed to to_xml, and the outcome is the
\* converted string written to the attribute or the converter's error.
C6_NoneOrDefaultClears ==
    last.op = "set_optional" =>
        IF last.value = None \/ last.value = last.default
        THEN /\ last.out = Return(None)
             /\ attrib \in {last.attrib, ElmDel(last.attrib, LastKey)}
        ELSE ConvertedAndWritten

\* None was assigned to a present attribute whose default is not None
C6_Witness ==
    /\ last.op = "set_optional"
    /\ last.value = None
    /\ last.default = PyInt(24)
    /\ LastKey \in DOMAIN last.attrib
    /\ last.out = Return(None)

\* C7 as stated: reading an optional attribute never raises.
C7_GetOptionalNeverFails ==
    last.op = "get_optional" => last.out.exc = "none"

\* C7: reading an optional attribute succeeds when the attribute is absent
\* and when its raw string is a string of decimal digits; the only error
\* of the read is the one from_xml raises for the raw string, unchanged.
C7_GetOptionalFailsAsFromXml ==
    last.op = "get_optional" =>
        /\ LastKey \notin DOMAIN attrib => last.out.exc = "none"
        /\ LastKey \in DOMAIN attrib =>
              /\ last.out.exc = from_xml(attrib[LastKey]).exc
              /\ AllDigits(attrib[LastKey]) => last.out.exc = "none"

\* an optional attribute holding a malformed raw string was read
C7_Witness ==
    /\ last.op = "get_optional"
    /\ LastKey \in DOMAIN attrib
    /\ attrib[LastKey] = <<"x">>
    /\ last.out.exc = "ValueError"

\* C8: reading an optional attribute returns the default, unconverted,
\* exactly when the attribute is absent, and otherwise the outcome of
\* from_xml on the raw string; the read leaves the element unchanged.
C8_GetOptionalDefaultIffAbsent ==
    last.op = "get_optional" =>
        /\ last.path = "default" <=> LastKey \notin DOMAIN last.attrib
        /\ last.out = (IF LastKey \notin DOMAIN last.attrib
                        THEN Return(last.default)
                        ELSE from_xml(last.attrib[LastKey]))
        /\ ElementUnchanged

\* an absent attribute was read as its default 24, and (as the other case)
\* the element holds an attribute that reads as a converted value
C8_Witness ==
    /\ last.op = "get_optional"
    /\ LastKey \notin DOMAIN attrib
    /\ last.default = PyInt(24)
    /\ last.out = Return(PyInt(24))
    /\ \E n \in OptionalAttrNames :
          OptionalAttribute_getter(n, None, attrib).out = Return(PyInt(5))

\* C9: reading a required attribute that the element lacks raises
\* InvalidXmlError and leaves the element unchanged.
C9_GetRequiredAbsentRaises ==
    (last.op = "get_required" /\ LastKey \notin DOMAIN last.attrib) =>
        /\ last.out = Raise("InvalidXmlError")
        /\ ElementUnchanged

\* a required attribute was read on an element without it
C9_Witness ==
    /\ last.op = "get_required"
    /\ LastKey \notin DOMAIN attrib
    /\ last.out.exc = "InvalidXmlError"

\* the getter of the descriptor the last call went through, on the
\* element as it is now
GetAfterSet ==
    IF last.op = "set_required"
    THEN RequiredAttribute_getter(last.name, attrib).out
    ELSE OptionalAttribute_getter(last.name, last.default, attrib).out

\* C10: after assigning a valid value v to a required attribute, or a
\* valid value v other than the default to an optional attribute, the
\* assignment has succeeded and a get returns v, whatever the attribute
\* held before.
C10_SetThenGet ==
    (/\ last.op \in {"set_required", "set_optional"}
     /\ ~InvalidValue(last.value)
     /\ last.op = "set_optional" => last.value # last.default) =>
        /\ last.out = Return(None)
        /\ GetAfterSet = Return(last.value)

\* 42 was assigned to the namespace-prefixed optional attribute (default
\* 24) over a malformed raw string
C10_Witness ==
    /\ last.op = "set_optional"
    /\ last.name = r_id
    /\ last.default = PyInt(24)
    /\ last.value = PyInt(42)
    /\ LastKey \in DOMAIN last.attrib
    /\ last.attrib[LastKey] = <<"x">>
    /\ GetAfterSet = Return(PyInt(42))

-----------------------------------------------------------------------------
(* Child descriptors: properties *)

\* the clark names of the tag names
TagSet(tagnames) == {qn(tagnames[k]) : k \in 1..Len(tagnames)}

\* position of the first child, in document order, whose tag is any of
\* tagnames; 0 when there is none
DocFirst(kids, tagnames) ==
    IF \E k \in 1..Len(kids) : kids[k].tag \in TagSet(tagnames)
    THEN CHOOSE k \in 1..Len(kids) :
            /\ kids[k].tag \in TagSet(tagnames)
            /\ \A j \in 1..(k - 1) : kids[j].tag \notin TagSet(tagnames)
    ELSE 0

\* C1: _insert_x(child) places child immediately before the first
\* existing child, in document order, whose tag is any of the successor
\* tags (whatever the order of the tags in successors), and appends it when
\* no child matches; first_child_found_in(*tags) returns the first child in
\* document order whose tag is any of tags, or None.
C1_InsertBeforeFirstSuccessor ==
    /\ last.op = "insert" =>
          children = (IF DocFirst(last.children, successors) # 0
                      THEN InsertAt(last.children, last.elm,
                                    DocFirst(last.children, successors))
                      ELSE Append(last.children, last.elm))
    /\ last.op = "first_child_found_in" =>
          last.out = (IF DocFirst(children, last.name) = 0
                      THEN Return(None)
                      ELSE Return(PyElm(children[DocFirst(children,
                                                          last.name)])))

\* C2: every child attached through the descriptor is positioned before
\* every sibling whose tag is one of the descriptor's successors.
C2_InsertedBeforeSuccessors ==
    \A k, j \in 1..Len(children) :
        (children[k].id \in inserted
            /\ children[j].tag \in TagSet(successors)) => k < j

\* C4: _insert_x(child), of a ZeroOrOne and of a ZeroOrMore descriptor,
\* returns the child it inserted, as insert_element_before does.
C4_InsertReturnsChild ==
    (last.op = "insert" /\ kind \in {"ZeroOrOne", "ZeroOrMore"}) =>
        /\ last.out = Return(PyElm(last.elm))
        /\ last.out
              = insert_element_before(last.children, last.elm, successors).out


-----------------------------------------------------------------------------
(* Properties of get_or_add_x(), x_lst, _add_x(), _remove_x() and
   remove_if_present() *)

\* ids of the elements of a sequence of children
Ids(kids) == {kids[k].id : k \in 1..Len(kids)}

\* children of kids that do not have the descriptor's tag, in order
OtherChildren(kids) ==
    LET NotX(e) == e.tag # qn(nsptagname)
    IN  SelectSeq(kids, NotX)

\* C11: on a parent with zero or one p:x child, get_or_add_x() returns a
\* p:x child of the parent, a second call right after it returns the same
\* child and leaves the children as they are, and whatever get_or_add_x()
\* and _remove_x() calls were made the parent has at most one p:x child.
C11_GetOrAddIdempotent ==
    /\ CountX(children) <= 1
    /\ last.op = "get_or_add" =>
         LET again == get_or_add_child(children, nextId, successors)
         IN  /\ last.out = Return(PyElm(last.elm))
             /\ last.elm.tag = qn(nsptagname)
             /\ last.elm.id \in Ids(children)
             /\ again.out = last.out
             /\ again.children = children

\* get_or_add_x() has added a child again after _remove_x() removed one
C11_Witness ==
    /\ last.op = "get_or_add"
    /\ CountX(last.children) = 0
    /\ CountX(children) = 1
    /\ Made >= 2

\* C12: x_lst is the sequence of the children with tag p:x in document
\* order; _add_x() adds exactly one new p:x child, leaves the children that
\* were there in their order, and puts the new child before every sibling
\* whose tag is one of the successors.
C12_AddKeepsOrder ==
    /\ last.op = "x_lst" => last.lst = FindAll(children, qn(nsptagname))
    /\ (kind = "ZeroOrMore" /\ last.op = "add" /\ last.out.exc = "none") =>
         /\ CountX(children) = CountX(last.children) + 1
         /\ last.elm.id \notin Ids(last.children)
         /\ RemoveElm(children, last.elm) = last.children
         /\ \A i, j \in 1..Len(children) :
              (children[i].id = last.elm.id
               /\ children[j].tag \in TagSet(successors)) => i < j

\* C13: _remove_x() removes every child with tag p:x, so that the x getter
\* returns None afterwards; the other children keep their order, the
\* attributes are untouched, and nothing changes when there is no p:x child.
C13_RemoveRemovesAll ==
    last.op = "remove" =>
        /\ children = OtherChildren(last.children)
        /\ get_child_element(children) = 0
        /\ attrib = last.attrib
        /\ CountX(last.children) = 0 => children = last.children

\* _remove_x() has removed two p:x children and left another child
C13_Witness ==
    /\ last.op = "remove"
    /\ CountX(last.children) >= 2
    /\ children # <<>>

\* is the k-th child of kids left by remove_if_present(tagnames): each
\* listed occurrence of a tag takes the first child still having that tag
KeptByRemoveIfPresent(kids, tagnames, k) ==
    LET earlier == Cardinality({j \in 1..(k - 1) : kids[j].tag = kids[k].tag})
        listed == Cardinality({i \in 1..Len(tagnames) :
                                 qn(tagnames[i]) = kids[k].tag})
    IN  earlier >= listed

\* the children of kids from position k on that remove_if_present leaves
RECURSIVE KeptFrom(_, _, _)
KeptFrom(kids, tagnames, k) ==
    IF k > Len(kids) THEN <<>>
    ELSE (IF KeptByRemoveIfPresent(kids, tagnames, k) THEN <<kids[k]>>
          ELSE <<>>) \o KeptFrom(kids, tagnames, k + 1)

Failing(attrs) == {k \in 1..Len(attrs) : InvalidValue(attrs[k][2])}

\* C17: _add_x(**attrs) assigns every keyword to the new child before it
\* inserts it: when an assignment fails the call raises the converter's
\* error, the new child is not among the children, and the children and
\* attributes of the parent are as before; when all succeed the call
\* returns the new child, which is a child of the parent and carries the
\* converted value of every keyword.
C17_AddAllOrNothing ==
    last.op = "add" =>
        LET failing == Failing(last.attrs)
            first == CHOOSE k \in failing : \A m \in failing : k <= m
        IN  IF failing # {}
            THEN /\ last.out = to_xml(last.attrs[first][2])
                 /\ last.out.exc # "none"
                 /\ children = last.children
                 /\ attrib = last.attrib
                 /\ last.elm.id \notin Ids(children)
            ELSE /\ last.out = Return(PyElm(last.elm))
                 /\ \E k \in 1..Len(children) : children[k] = last.elm
                 /\ last.elm.id \notin Ids(last.children)
                 /\ DOMAIN last.elm.attrib
                      = {clark_name(last.attrs[k][1]) :
                           k \in 1..Len(last.attrs)}
                 /\ \A k \in 1..Len(last.attrs) :
                      last.elm.attrib[clark_name(last.attrs[k][1])]
                        = to_xml(last.attrs[k][2]).val.s
                 /\ attrib = last.attrib

\* _add_x() failed on its second keyword after the first was assigned
C17_Witness ==
    /\ last.op = "add"
    /\ Len(last.attrs) = 2
    /\ Failing(last.attrs) = {2}
    /\ last.out.exc = "ValueError"
    /\ last.elm.attrib # [k \in {} |-> <<>>]


-----------------------------------------------------------------------------
(* Properties of the class instrumentation *)

\* the names a child descriptor declared as prop_name generates besides
\* prop_name itself
GeneratedNames(prop_name) ==
    {new_method_name(prop_name), insert_method_name(prop_name),
     add_method_name(prop_name), get_or_add_method_name(prop_name),
     remove_method_name(prop_name), list_getter_name(prop_name)}

\* the declared names bound to a child descriptor
ChildDescriptors == {n \in DOMAIN clsdict : clsdict[n] \in {"ZeroOrOne",
                                                             "ZeroOrMore"}}

\* C14: a member the class defines itself under a name a child descriptor
\* would generate (_new_x, _insert_x, _add_x, get_or_add_x, _remove_x,
\* x_lst) is still the class's own definition once the class is
\* instrumented.
C14_ExplicitMembersKept ==
    todo = {} =>
        \A n \in DOMAIN clsdict :
            (/\ clsdict[n] = "def"
             /\ \E prop_name \in ChildDescriptors :
                    n \in GeneratedNames(prop_name))
            => (n \in DOMAIN cls /\ cls[n] = Member("def", n))

\* the class after the loop has visited the keys in the order given
RECURSIVE Instrumented(_, _, _)
Instrumented(dict, c, order) ==
    IF order = <<>> THEN c
    ELSE Instrumented(dict,
                      IF dict[Head(order)] \in dispatchable
                      THEN populate_class_members(dict[Head(order)], c,
                                                  Head(order))
                      ELSE c,
                      Tail(order))

\* the orders in which items() may yield the keys of dict
Orders(dict) ==
    {o \in [1..Cardinality(DOMAIN dict) -> DOMAIN dict] :
        \A i, j \in DOMAIN o : o[i] = o[j] => i = j}

\* C15: once the class is instrumented, the members of the class are the
\* same whatever the order in which the declared members were visited, and
\* populate_class_members has run exactly once for each descriptor.
C15_OrderIndependent ==
    todo = {} =>
        /\ \A o \in Orders(clsdict) :
               cls = Instrumented(clsdict, ClassOf(clsdict), o)
        /\ \A n \in DOMAIN clsdict :
               runs[n] = IF clsdict[n] \in dispatchable THEN 1 ELSE 0


-----------------------------------------------------------------------------
(* Properties of the connector's end points *)

\* the horizontal fields are those the last assignment found
XUntouched == x = moved.x /\ cx = moved.cx /\ flipH = moved.flipH

\* the vertical fields are those the last assignment found
YUntouched == y = moved.y /\ cy = moved.cy /\ flipV = moved.flipV

\* C18: on a connector with a non-negative extent, assigning an integer to
\* begin_x, end_x, begin_y or end_y makes that end point read back the
\* value, leaves the opposite end point of the axis where it was and the
\* other axis untouched, and keeps the extent non-negative, flipped or not.
C18_EndpointAssigned ==
    /\ cx >= 0
    /\ cy >= 0
    /\ moved.prop = "begin_x" =>
         /\ begin_x(CxnSp) = moved.value
         /\ end_x(CxnSp) = end_x(moved)
         /\ YUntouched
    /\ moved.prop = "end_x" =>
         /\ end_x(CxnSp) = moved.value
         /\ begin_x(CxnSp) = begin_x(moved)
         /\ YUntouched
    /\ moved.prop = "begin_y" =>
         /\ begin_y(CxnSp) = moved.value
         /\ end_y(CxnSp) = end_y(moved)
         /\ XUntouched
    /\ moved.prop = "end_y" =>
         /\ end_y(CxnSp) = moved.value
         /\ begin_y(CxnSp) = begin_y(moved)
         /\ XUntouched

\* begin_x of a flipped connector was moved left of its end point, which
\* unflips the connector; the vertical axis had been flipped before
C18_Witness ==
    /\ moved.prop = "begin_x"
    /\ moved.flipH
    /\ ~flipH
    /\ moved.cx > 0
    /\ cx > 0
    /\ flipV
    /\ cy > 0

=============================================================================
